---------------------------- MODULE Spec2Model ----------------------------
(***************************************************************************)
(* Binary-tree bin packing of src/app/utils/packer.algorithm.util.js:      *)
(* the GrowingPacker (lines 46-141) and the fixed-size Packer, exported as *)
(* FixedSizePacker (lines 183-219).                                        *)
(*                                                                         *)
(* Objects.  A node object is a record of the arena `nodes`; a reference   *)
(* to a node is its index, and Null is JavaScript's null.  A node literal  *)
(* {x, y, width, height} has no `used`, `right`, `down`: reading them      *)
(* gives undefined, which is falsy, modelled as used = FALSE and           *)
(* right = down = Null.  A block object is a record of `blocks`; its `fit` *)
(* is Undefined until a fit call assigns it.                               *)
(*                                                                         *)
(* Numbers.  The code computes in JavaScript numbers.  The model keeps     *)
(* them as exact rationals: aspectRatio is the reduced fraction            *)
(* <<num, den>>, and every length (x, y, width, height of nodes and of     *)
(* blocks) is held as an integer count of 1/Unit(aspectRatio), where       *)
(* Unit = num * den.  Every product with aspectRatio or 1 / aspectRatio    *)
(* that the code forms is then an integer (ExactArithmetic checks it), so  *)
(* comparisons in the model are the comparisons of the exact values.       *)
(* Rounding of the floating-point product is not modelled.                 *)
(***************************************************************************)
EXTENDS Integers, Sequences, FiniteSets, TLC

\* ---------------------------------------------------------------- bounds
\* Widths and heights of blocks and of the constructor's arguments: 1..MaxDim.
MaxDim == 2
\* Blocks processed over the life of one packer: the lengths of the lists of
\* all its fit calls, added up.
MaxBlocks == 3

\* JavaScript's null (a findNode / growNode result, a missing child).
Null == 0
\* JavaScript's undefined: the fit of a block no fit call has assigned.
Undefined == 0 - 1

\* The sizes a caller passes: every width and height up to MaxDim.
Shapes == (1..MaxDim) \X (1..MaxDim)

\* The sizes of the worked scenarios: a 100 x 100 bin or seed, and blocks of
\* 100 x 100, 50 x 50 and 60 x 60.
ScenarioSize == <<100, 100>>
ScenarioShapes == {<<100, 100>>, <<50, 50>>, <<60, 60>>}

\* The block lists a fit call may be given: at most k blocks of sizes in S.
Lists(S, k) == UNION {[1..m -> S] : m \in 0..k}

\* ------------------------------------------------------------- rationals
RECURSIVE GCD(_, _)
GCD(a, b) == IF b = 0 THEN a ELSE GCD(b, a % b)

\* The quotient a / b as a reduced fraction <<num, den>>.
Quotient(a, b) == <<a \div GCD(a, b), b \div GCD(a, b)>>

\* The number of model units in one caller unit.
Unit(ar) == ar[1] * ar[2]

\* v * aspectRatio and v * (1 / aspectRatio), on lengths held in model units.
Times(v, ar) == (v * ar[1]) \div ar[2]
Over(v, ar) == (v * ar[2]) \div ar[1]

VARIABLES
    kind,         \* which constructor built the packer
    size,         \* the constructor's arguments <<width, height>>
    sizes,        \* the sizes this caller's blocks are drawn from
    aspectRatio,  \* this.aspectRatio (GrowingPacker), <<num, den>>
    root,         \* this.root, a node reference
    nodes,        \* the node objects
    blocks,       \* the block objects the caller has passed so far
    lo, hi,       \* the blocks of the list of the current (or last) fit call
    n,            \* fit's loop variable, as an index into blocks
    pc,           \* "idle" between calls, "fit" inside a fit call
    work,         \* blocks handed to fit so far, over all calls
    order,        \* the blocks the current (or last) fit call has processed
    last          \* what the last step did

vars == <<kind, size, sizes, aspectRatio, root, nodes, blocks, lo, hi, n, pc, work,
          order, last>>

Kinds == {"GrowingPacker", "FixedSizePacker"}

\* A node literal {x, y, width, height}.
Node(x, y, width, height) ==
    [x |-> x, y |-> y, width |-> width, height |-> height,
     used |-> FALSE, right |-> Null, down |-> Null]

\* ------------------------------------------------------- GrowingPacker
\* init: the aspect ratio, always >= 1.
init_aspectRatio(width, height) ==
    IF width > height THEN Quotient(width, height) ELSE Quotient(height, width)

\* Mutant: a free node is taken when either dimension fits (|| for &&).
RECURSIVE findNode_either(_, _, _, _)
findNode_either(ns, r, width, height) ==
    IF ns[r].used
    THEN LET right == findNode_either(ns, ns[r].right, width, height)
         IN  IF right # Null THEN right
             ELSE findNode_either(ns, ns[r].down, width, height)
    ELSE IF (width <= ns[r].width) \/ (height <= ns[r].height) THEN r
    ELSE Null

\* Mutant: the down subtree is searched before the right subtree.
RECURSIVE findNode_downFirst(_, _, _, _)
findNode_downFirst(ns, r, width, height) ==
    IF ns[r].used
    THEN LET down == findNode_downFirst(ns, ns[r].down, width, height)
         IN  IF down # Null THEN down
             ELSE findNode_downFirst(ns, ns[r].right, width, height)
    ELSE IF (width <= ns[r].width) /\ (height <= ns[r].height) THEN r
    ELSE Null

RECURSIVE findNode(_, _, _, _)
findNode(ns, r, width, height) ==
    IF ns[r].used
    THEN LET right == findNode(ns, ns[r].right, width, height)
         IN  IF right # Null THEN right
             ELSE findNode(ns, ns[r].down, width, height)
    ELSE IF (width <= ns[r].width) /\ (height <= ns[r].height) THEN r
    ELSE Null

\* Mutant: the right child is as tall as the whole node.
splitNode_tallRight(ns, node, width, height) ==
    LET d == Len(ns) + 1
        r == Len(ns) + 2
        down  == Node(ns[node].x, ns[node].y + height,
                      ns[node].width, ns[node].height - height)
        right == Node(ns[node].x + width, ns[node].y,
                      ns[node].width - width, ns[node].height)
    IN  Append(Append([ns EXCEPT ![node].used = TRUE,
                                 ![node].down = d,
                                 ![node].right = r], down), right)

\* splitNode returns `node` itself; the result here is the arena after it.
splitNode(ns, node, width, height) ==
    LET d == Len(ns) + 1
        r == Len(ns) + 2
        down  == Node(ns[node].x, ns[node].y + height,
                      ns[node].width, ns[node].height - height)
        right == Node(ns[node].x + width, ns[node].y,
                      ns[node].width - width, height)
    IN  Append(Append([ns EXCEPT ![node].used = TRUE,
                                 ![node].down = d,
                                 ![node].right = r], down), right)

\* The outcome of a placement attempt: the arena, the root, the node
\* returned (or Null) and the branch taken.
Outcome(ns, r, fit, via) == [nodes |-> ns, root |-> r, fit |-> fit, via |-> via]

\* Mutant: growRight keeps the old root's height instead of deriving the
\* new height from the new width.
growRight_keepHeight(ns, r, ar, width, height) ==
    LET newWidth  == ns[r].width + width
        newHeight == ns[r].height
        newRoot   == Len(ns) + 1
        strip     == Len(ns) + 2
        grown     == Append(Append(ns,
                        [x |-> 0, y |-> 0, width |-> newWidth, height |-> newHeight,
                         used |-> TRUE, down |-> r, right |-> strip]),
                        Node(ns[r].width, 0, width, newHeight))
        node      == findNode(grown, newRoot, width, height)
    IN  IF node # Null
        THEN Outcome(splitNode(grown, node, width, height), newRoot, node, "growRight")
        ELSE Outcome(grown, newRoot, Null, "growRight")

\* Mutant: the old root is stretched to the new height when it is reused.
growRight_stretchesOld(ns, r, ar, width, height) ==
    LET newWidth  == ns[r].width + width
        newHeight == Over(newWidth, ar)
        newRoot   == Len(ns) + 1
        strip     == Len(ns) + 2
        grown     == Append(Append([ns EXCEPT ![r].height = newHeight],
                        [x |-> 0, y |-> 0, width |-> newWidth, height |-> newHeight,
                         used |-> TRUE, down |-> r, right |-> strip]),
                        Node(ns[r].width, 0, width, newHeight))
        node      == findNode(grown, newRoot, width, height)
    IN  IF node # Null
        THEN Outcome(splitNode(grown, node, width, height), newRoot, node, "growRight")
        ELSE Outcome(grown, newRoot, Null, "growRight")

growRight(ns, r, ar, width, height) ==
    LET newWidth  == ns[r].width + width
        newHeight == Over(newWidth, ar)
        newRoot   == Len(ns) + 1
        strip     == Len(ns) + 2
        grown     == Append(Append(ns,
                        [x |-> 0, y |-> 0, width |-> newWidth, height |-> newHeight,
                         used |-> TRUE, down |-> r, right |-> strip]),
                        Node(ns[r].width, 0, width, newHeight))
        node      == findNode(grown, newRoot, width, height)
    IN  IF node # Null
        THEN Outcome(splitNode(grown, node, width, height), newRoot, node, "growRight")
        ELSE Outcome(grown, newRoot, Null, "growRight")

\* Mutant: growing down keeps the old width (no aspect-ratio rescale).
growDown_keepWidth(ns, r, ar, width, height) ==
    LET newHeight == ns[r].height + height
        newWidth  == ns[r].width
        newRoot   == Len(ns) + 1
        strip     == Len(ns) + 2
        grown     == Append(Append(ns,
                        [x |-> 0, y |-> 0, width |-> newWidth, height |-> newHeight,
                         used |-> TRUE, down |-> strip, right |-> r]),
                        Node(0, ns[r].height, newWidth, height))
        node      == findNode(grown, newRoot, width, height)
    IN  IF node # Null
        THEN Outcome(splitNode(grown, node, width, height), newRoot, node, "growDown")
        ELSE Outcome(grown, newRoot, Null, "growDown")

growDown(ns, r, ar, width, height) ==
    LET newHeight == ns[r].height + height
        newWidth  == Times(newHeight, ar)
        newRoot   == Len(ns) + 1
        strip     == Len(ns) + 2
        grown     == Append(Append(ns,
                        [x |-> 0, y |-> 0, width |-> newWidth, height |-> newHeight,
                         used |-> TRUE, down |-> strip, right |-> r]),
                        Node(0, ns[r].height, newWidth, height))
        node      == findNode(grown, newRoot, width, height)
    IN  IF node # Null
        THEN Outcome(splitNode(grown, node, width, height), newRoot, node, "growDown")
        ELSE Outcome(grown, newRoot, Null, "growDown")

canGrowDown(ns, r, width) == width <= ns[r].width
canGrowRight(ns, r, height) == height <= ns[r].height
shouldGrowRight(ns, r, ar, width, height) ==
    canGrowRight(ns, r, height) /\ (Times(ns[r].height, ar) >= ns[r].width + width)
shouldGrowDown(ns, r, ar, width, height) ==
    canGrowDown(ns, r, width) /\ (Over(ns[r].width, ar) >= ns[r].height + height)

\* Mutant: the last branch grows down instead of rejecting.
growNode_neverRejects(ns, r, ar, width, height) ==
    IF shouldGrowRight(ns, r, ar, width, height) THEN growRight(ns, r, ar, width, height)
    ELSE IF shouldGrowDown(ns, r, ar, width, height) THEN growDown(ns, r, ar, width, height)
    ELSE IF canGrowRight(ns, r, height) THEN growRight(ns, r, ar, width, height)
    ELSE growDown(ns, r, ar, width, height)

\* Mutant: canGrowDown is tried before canGrowRight.
growNode_downBeforeRight(ns, r, ar, width, height) ==
    IF shouldGrowRight(ns, r, ar, width, height) THEN growRight(ns, r, ar, width, height)
    ELSE IF shouldGrowDown(ns, r, ar, width, height) THEN growDown(ns, r, ar, width, height)
    ELSE IF canGrowDown(ns, r, width) THEN growDown(ns, r, ar, width, height)
    ELSE IF canGrowRight(ns, r, height) THEN growRight(ns, r, ar, width, height)
    ELSE Outcome(ns, r, Null, "reject")

growNode(ns, r, ar, width, height) ==
    IF shouldGrowRight(ns, r, ar, width, height) THEN growRight(ns, r, ar, width, height)
    ELSE IF shouldGrowDown(ns, r, ar, width, height) THEN growDown(ns, r, ar, width, height)
    ELSE IF canGrowRight(ns, r, height) THEN growRight(ns, r, ar, width, height)
    ELSE IF canGrowDown(ns, r, width) THEN growDown(ns, r, ar, width, height)
    ELSE Outcome(ns, r, Null, "reject")

\* Mutant: the loop body grows the root without first searching the tree.
GrowingPacker_fit_growsFirst(ns, r, ar, block) ==
    growNode(ns, r, ar, block.width, block.height)

\* The body of fit's loop for one block.
GrowingPacker_fit(ns, r, ar, block) ==
    LET node == findNode(ns, r, block.width, block.height)
    IN  IF node # Null
        THEN Outcome(splitNode(ns, node, block.width, block.height), r, node, "split")
        ELSE growNode(ns, r, ar, block.width, block.height)

\* --------------------------------------------------- Packer (fixed size)
\* Mutant: the down subtree is searched before the right subtree.
RECURSIVE Packer_findNode_downFirst(_, _, _, _)
Packer_findNode_downFirst(ns, r, width, height) ==
    IF ns[r].used
    THEN LET down == Packer_findNode_downFirst(ns, ns[r].down, width, height)
         IN  IF down # Null THEN down
             ELSE Packer_findNode_downFirst(ns, ns[r].right, width, height)
    ELSE IF (width <= ns[r].width) /\ (height <= ns[r].height) THEN r
    ELSE Null

RECURSIVE Packer_findNode(_, _, _, _)
Packer_findNode(ns, r, width, height) ==
    IF ns[r].used
    THEN LET right == Packer_findNode(ns, ns[r].right, width, height)
         IN  IF right # Null THEN right
             ELSE Packer_findNode(ns, ns[r].down, width, height)
    ELSE IF (width <= ns[r].width) /\ (height <= ns[r].height) THEN r
    ELSE Null

\* Mutant: the right child is as tall as the whole node, so it overlaps
\* the down child.
Packer_splitNode_tallRight(ns, node, width, height) ==
    LET d == Len(ns) + 1
        r == Len(ns) + 2
        down  == Node(ns[node].x, ns[node].y + height,
                      ns[node].width, ns[node].height - height)
        right == Node(ns[node].x + width, ns[node].y,
                      ns[node].width - width, ns[node].height)
    IN  Append(Append([ns EXCEPT ![node].used = TRUE,
                                 ![node].down = d,
                                 ![node].right = r], down), right)

\* Mutant: the down child keeps the node's whole height, so it reaches
\* below the node.
Packer_splitNode_fullDown(ns, node, width, height) ==
    LET d == Len(ns) + 1
        r == Len(ns) + 2
        down  == Node(ns[node].x, ns[node].y + height,
                      ns[node].width, ns[node].height)
        right == Node(ns[node].x + width, ns[node].y,
                      ns[node].width - width, height)
    IN  Append(Append([ns EXCEPT ![node].used = TRUE,
                                 ![node].down = d,
                                 ![node].right = r], down), right)

Packer_splitNode(ns, node, width, height) ==
    LET d == Len(ns) + 1
        r == Len(ns) + 2
        down  == Node(ns[node].x, ns[node].y + height,
                      ns[node].width, ns[node].height - height)
        right == Node(ns[node].x + width, ns[node].y,
                      ns[node].width - width, height)
    IN  Append(Append([ns EXCEPT ![node].used = TRUE,
                                 ![node].down = d,
                                 ![node].right = r], down), right)

\* The body of fit's loop for one block: block.fit is assigned only when a
\* node was found, and keeps its value otherwise.
Packer_fit(ns, r, block) ==
    LET node == Packer_findNode(ns, r, block.width, block.height)
    IN  IF node # Null
        THEN Outcome(Packer_splitNode(ns, node, block.width, block.height), r, node, "split")
        ELSE Outcome(ns, r, block.fit, "skip")

\* ---------------------------------------------------------------- steps
\* The loop header of both fit functions, for (n = 0; n < len; n++): the
\* next index after the block at n was handled, whatever fit it got.
\* Mutant: the loop is left at the first block that got no node.
fit_next_break(i, len, fit) == IF fit = Null THEN len + 1 ELSE i + 1

fit_next(i, len, fit) == i + 1

\* new GrowingPacker(width, height) or new Packer(width, height).
Construct(k, sz, S) ==
    LET ar == IF k = "GrowingPacker" THEN init_aspectRatio(sz[1], sz[2])
              ELSE <<1, 1>>
    IN  /\ kind = k
        /\ size = sz
        /\ sizes = S
        /\ aspectRatio = ar
        /\ root = 1
        /\ nodes = <<Node(0, 0, sz[1] * Unit(ar), sz[2] * Unit(ar))>>

Init ==
    /\ \/ \E k \in Kinds, sz \in Shapes : Construct(k, sz, Shapes)
       \/ \E k \in Kinds : Construct(k, ScenarioSize, ScenarioShapes)
    /\ blocks = <<>>
    /\ lo = 1 /\ hi = 0 /\ n = 1
    /\ pc = "idle"
    /\ work = 0
    /\ order = <<>>
    /\ last = "init"

\* The caller's block objects {width, height} for a list of sizes.
NewBlocks(list) ==
    [i \in 1..Len(list) |->
        [width |-> list[i][1] * Unit(aspectRatio),
         height |-> list[i][2] * Unit(aspectRatio),
         fit |-> Undefined]]

\* fit(blocks) is called with a list of new block objects.
Call ==
    /\ pc = "idle"
    /\ \E list \in Lists(sizes, MaxBlocks - work) :
        /\ blocks' = blocks \o NewBlocks(list)
        /\ lo' = Len(blocks) + 1
        /\ hi' = Len(blocks) + Len(list)
        /\ n' = Len(blocks) + 1
        /\ work' = work + Len(list)
    /\ pc' = "fit" /\ order' = <<>> /\ last' = "call"
    /\ UNCHANGED <<kind, size, sizes, aspectRatio, root, nodes>>

\* fit(blocks) is called again with the list of the last call.
CallAgain ==
    /\ pc = "idle" /\ lo <= hi /\ work + (hi - lo + 1) <= MaxBlocks
    /\ n' = lo /\ work' = work + (hi - lo + 1)
    /\ pc' = "fit" /\ order' = <<>> /\ last' = "call"
    /\ UNCHANGED <<kind, size, sizes, aspectRatio, root, nodes, blocks, lo, hi>>

\* One iteration of GrowingPacker.prototype.fit's loop.
GrowingFit ==
    /\ kind = "GrowingPacker" /\ pc = "fit" /\ n <= hi
    /\ LET out == GrowingPacker_fit(nodes, root, aspectRatio, blocks[n])
       IN  /\ nodes' = out.nodes
           /\ root' = out.root
           /\ blocks' = [blocks EXCEPT ![n].fit = out.fit]
           /\ last' = out.via
           /\ n' = fit_next(n, hi, out.fit)
    /\ order' = Append(order, n)
    /\ UNCHANGED <<kind, size, sizes, aspectRatio, lo, hi, pc, work>>

\* One iteration of Packer.prototype.fit's loop.
FixedFit ==
    /\ kind = "FixedSizePacker" /\ pc = "fit" /\ n <= hi
    /\ LET out == Packer_fit(nodes, root, blocks[n])
       IN  /\ nodes' = out.nodes
           /\ root' = out.root
           /\ blocks' = [blocks EXCEPT ![n].fit = out.fit]
           /\ last' = out.via
           /\ n' = fit_next(n, hi, out.fit)
    /\ order' = Append(order, n)
    /\ UNCHANGED <<kind, size, sizes, aspectRatio, lo, hi, pc, work>>

\* The loop ends and fit returns.
Return ==
    /\ pc = "fit" /\ n > hi
    /\ pc' = "idle" /\ last' = "return"
    /\ UNCHANGED <<kind, size, sizes, aspectRatio, root, nodes, blocks, lo, hi, n, work,
                   order>>

Next == Call \/ CallAgain \/ GrowingFit \/ FixedFit \/ Return

Spec == Init /\ [][Next]_vars

\* ------------------------------------------------------------ soundness
Fits == {Undefined, Null} \cup (1..Len(nodes))

TypeOK ==
    /\ kind \in Kinds
    /\ root \in 1..Len(nodes)
    /\ \A i \in 1..Len(nodes) :
        /\ nodes[i].right \in 0..Len(nodes)
        /\ nodes[i].down \in 0..Len(nodes)
        /\ nodes[i].used \in BOOLEAN
    /\ \A i \in 1..Len(blocks) : blocks[i].fit \in Fits
    /\ Len(blocks) <= MaxBlocks
    /\ pc \in {"idle", "fit"}
    /\ lo \in 1..(Len(blocks) + 1) /\ hi \in 0..Len(blocks) /\ n \in lo..(hi + 1)

\* Every product the code forms with aspectRatio or its inverse is an
\* integer number of model units.
ExactArithmetic ==
    kind = "GrowingPacker" =>
        /\ (nodes[root].height * aspectRatio[1]) % aspectRatio[2] = 0
        /\ (nodes[root].width * aspectRatio[2]) % aspectRatio[1] = 0
        /\ \A s \in Shapes :
            /\ ((nodes[root].width + s[1] * Unit(aspectRatio)) * aspectRatio[2])
                   % aspectRatio[1] = 0
            /\ ((nodes[root].height + s[2] * Unit(aspectRatio)) * aspectRatio[1])
                   % aspectRatio[2] = 0

\* --------------------------------------------------------------- claims
\* A block carries a placement: its fit is a node (truthy in `if (block.fit)`).
Placed(i) == blocks[i].fit \notin {Undefined, Null}

\* The footprint [x, x + width) x [y, y + height) of a placed block: the
\* x, y of its fit and the block's own width and height.
Left(i)   == nodes[blocks[i].fit].x
Top(i)    == nodes[blocks[i].fit].y
Right(i)  == Left(i) + blocks[i].width
Bottom(i) == Top(i) + blocks[i].height

Disjoint(i, j) ==
    \/ Right(i) <= Left(j) \/ Right(j) <= Left(i)
    \/ Bottom(i) <= Top(j) \/ Bottom(j) <= Top(i)

NoOverlap ==
    \A i \in 1..Len(blocks), j \in 1..Len(blocks) :
        (i < j /\ Placed(i) /\ Placed(j)) => Disjoint(i, j)

Inside(i, width, height) ==
    /\ 0 <= Left(i) /\ 0 <= Top(i)
    /\ Right(i) <= width /\ Bottom(i) <= height

\* C1: in the GrowingPacker any two placed rectangles have disjoint
\* footprints, for every initial size and every sequence of rectangles.
C1_GrowingNoOverlap == (kind = "GrowingPacker") => NoOverlap

\* C2: in the FixedSizePacker any two placed rectangles have disjoint
\* footprints, whether they were passed in one fit call or in several.
C2_FixedNoOverlap == (kind = "FixedSizePacker") => NoOverlap

\* Two rectangles placed by two different fit calls on one fixed packer.
C2_Witness ==
    /\ kind = "FixedSizePacker" /\ pc = "idle" /\ lo > 1
    /\ \E i \in 1..(lo - 1), j \in lo..hi : Placed(i) /\ Placed(j)

\* C3: when GrowingPacker.fit returns, every placed rectangle lies inside
\* the final root: 0 <= x, 0 <= y, x + width <= root.width and
\* y + height <= root.height.
C3_GrowingContainment ==
    (kind = "GrowingPacker" /\ pc = "idle") =>
        \A i \in 1..Len(blocks) :
            Placed(i) => Inside(i, nodes[root].width, nodes[root].height)

\* C4: over a GrowingPacker run root.width and root.height never decrease
\* from one step to the next.
C4_GrowthMonotone ==
    [][(kind = "GrowingPacker") =>
          /\ nodes'[root'].width >= nodes[root].width
          /\ nodes'[root'].height >= nodes[root].height]_vars

\* C5: the FixedSizePacker's root keeps the constructor's width and height
\* in every state, and every placed rectangle lies inside it.
C5_FixedContainment ==
    (kind = "FixedSizePacker") =>
        /\ nodes[root].width = size[1] /\ nodes[root].height = size[2]
        /\ nodes[root].x = 0 /\ nodes[root].y = 0
        /\ \A i \in 1..Len(blocks) : Placed(i) => Inside(i, size[1], size[2])

\* A fixed packer that placed a rectangle reaching the bin's far corner.
C5_Witness ==
    /\ kind = "FixedSizePacker"
    /\ \E i \in 1..Len(blocks) :
        Placed(i) /\ Right(i) = size[1] /\ Bottom(i) = size[2] /\ Left(i) > 0


\* C6: a rectangle that fits no free node and is both wider and taller than
\* the root gets fit = null, and the root and the tree stay as they were.
C6_Rejection ==
    [][(/\ kind = "GrowingPacker" /\ pc = "fit" /\ n <= hi
        /\ findNode(nodes, root, blocks[n].width, blocks[n].height) = Null
        /\ blocks[n].width > nodes[root].width
        /\ blocks[n].height > nodes[root].height)
       => (blocks'[n].fit = Null /\ nodes' = nodes /\ root' = root)]_vars

\* growNode has just rejected a rectangle wider and taller than the root.
C6_Witness ==
    /\ kind = "GrowingPacker" /\ last = "reject" /\ n > lo
    /\ blocks[n - 1].fit = Null
    /\ blocks[n - 1].width > nodes[root].width
    /\ blocks[n - 1].height > nodes[root].height

\* C7: a rectangle that, when it is processed, is no wider than the root or
\* no taller than the root ends with a placement.
C7_PlacedUnlessBothLarger ==
    [][(/\ kind = "GrowingPacker" /\ pc = "fit" /\ n <= hi
        /\ \/ blocks[n].width <= nodes[root].width
           \/ blocks[n].height <= nodes[root].height)
       => (blocks'[n].fit \notin {Undefined, Null})]_vars

\* C8 as stated: the node recorded as a placed rectangle's fit has the
\* rectangle's own width and height.
C8_FitNodeHasBlockSize ==
    \A i \in 1..Len(blocks) :
        Placed(i) => /\ nodes[blocks[i].fit].width = blocks[i].width
                     /\ nodes[blocks[i].fit].height = blocks[i].height

\* C8 amended: the node recorded as a placed rectangle's fit is a used node
\* at least as wide and as tall as the rectangle; the rectangle's footprint
\* is what its children leave: right starts at x + width and is height
\* tall, down starts at y + height.
C8_FitNodeCoversBlock ==
    \A i \in 1..Len(blocks) :
        Placed(i) =>
            LET node == nodes[blocks[i].fit]
            IN  /\ node.used
                /\ node.width >= blocks[i].width
                /\ node.height >= blocks[i].height
                /\ nodes[node.right].x = node.x + blocks[i].width
                /\ nodes[node.right].height = blocks[i].height
                /\ nodes[node.down].y = node.y + blocks[i].height

\* A rectangle placed in a node that is wider and taller than it.
C8_Witness ==
    \E i \in 1..Len(blocks) :
        /\ Placed(i)
        /\ nodes[blocks[i].fit].width > blocks[i].width
        /\ nodes[blocks[i].fit].height > blocks[i].height

\* The blocks lo..hi of the call's list, in input order.
InputOrder == [i \in 1..(hi - lo + 1) |-> lo + i - 1]

\* The result of the loop body for the block at n.
NextOutcome ==
    IF kind = "GrowingPacker"
    THEN GrowingPacker_fit(nodes, root, aspectRatio, blocks[n])
    ELSE Packer_fit(nodes, root, blocks[n])

\* C9: a fit call on any list terminates having processed every rectangle
\* of the list exactly once in input order, whatever fit each one got: the
\* loop has handled exactly the blocks before n, in order, and n never
\* passes the end of the list; the body for the next block ends with a
\* result (a node, null, or the fit left as it was) and a root; and when fit
\* has returned the whole list was handled.
C9_NonFatal ==
    /\ order = SubSeq(InputOrder, 1, Len(order))
    /\ n = lo + Len(order)
    /\ (pc = "fit") => (n <= hi + 1)
    /\ (pc = "fit" /\ n <= hi) =>
          LET out == NextOutcome
              len == Len(out.nodes)
          IN  /\ out.root \in 1..len
              /\ out.fit \in {Undefined, Null} \cup (1..len)
    /\ (pc = "idle") => (order = InputOrder)

\* A returned GrowingPacker.fit call in which a rectangle ended unplaced and
\* a later rectangle of the same list was placed.
C9_Witness ==
    /\ kind = "GrowingPacker" /\ pc = "idle"
    /\ \E i \in lo..hi, j \in lo..hi : i < j /\ blocks[i].fit = Null /\ Placed(j)

\* The first call's list starts with two 100 x 100 blocks on a
\* GrowingPacker(100, 100), and the loop has handled `done` of them.
Scenario100(done) ==
    /\ kind = "GrowingPacker" /\ size = <<100, 100>>
    /\ lo = 1 /\ hi >= 2 /\ work = hi /\ pc = "fit" /\ n = done + 1
    /\ blocks[1].width = 100 /\ blocks[1].height = 100
    /\ blocks[2].width = 100 /\ blocks[2].height = 100

\* C10: GrowingPacker(100, 100) given [100x100, 100x100] places the first at
\* (0, 0); for the second neither shouldGrowRight nor shouldGrowDown holds,
\* canGrowRight holds, growRight is taken, the new root is 200 x 200 and the
\* second is placed at (100, 0).
C10_GrowingScenario ==
    /\ Scenario100(1) =>
        /\ last = "split" /\ Placed(1) /\ Left(1) = 0 /\ Top(1) = 0
        /\ findNode(nodes, root, 100, 100) = Null
        /\ ~shouldGrowRight(nodes, root, aspectRatio, 100, 100)
        /\ ~shouldGrowDown(nodes, root, aspectRatio, 100, 100)
        /\ canGrowRight(nodes, root, 100)
    /\ Scenario100(2) =>
        /\ last = "growRight"
        /\ nodes[root].width = 200 /\ nodes[root].height = 200
        /\ Placed(1) /\ Left(1) = 0 /\ Top(1) = 0
        /\ Placed(2) /\ Left(2) = 100 /\ Top(2) = 0

\* The second 100 x 100 block of the scenario has been handled.
C10_Witness == Scenario100(2) /\ Placed(2)

\* The first call on a FixedSizePacker(100, 100) was given exactly
\* [50x50, 50x50, 60x60], and the loop has handled `done` of them.
Scenario506(done) ==
    /\ kind = "FixedSizePacker" /\ size = <<100, 100>>
    /\ lo = 1 /\ hi = 3 /\ work = 3 /\ n = done + 1
    /\ blocks[1].width = 50 /\ blocks[1].height = 50
    /\ blocks[2].width = 50 /\ blocks[2].height = 50
    /\ blocks[3].width = 60 /\ blocks[3].height = 60

\* C11: FixedSizePacker(100, 100).fit([50x50, 50x50, 60x60]) places item 1
\* at (0, 0), item 2 at (50, 0) (the right remainder before the down
\* remainder), and leaves item 3 unplaced.
C11_FixedScenario ==
    /\ Scenario506(1) => (Placed(1) /\ Left(1) = 0 /\ Top(1) = 0)
    /\ Scenario506(2) => (Placed(2) /\ Left(2) = 50 /\ Top(2) = 0)
    /\ Scenario506(3) =>
        /\ Placed(1) /\ Left(1) = 0 /\ Top(1) = 0
        /\ Placed(2) /\ Left(2) = 50 /\ Top(2) = 0
        /\ ~Placed(3) /\ last \in {"skip", "return"}

\* The scenario's call has returned.
C11_Witness == Scenario506(3) /\ pc = "idle" /\ ~Placed(3)

\* The sum of width * height over the placed blocks among the first k.
RECURSIVE PlacedArea(_)
PlacedArea(k) ==
    IF k = 0 THEN 0
    ELSE PlacedArea(k - 1)
           + (IF Placed(k) THEN blocks[k].width * blocks[k].height ELSE 0)

\* C12: when fit returns, the areas of the placed rectangles add up to at
\* most root.width * root.height, for either packer and any initial size.
C12_AreaBound ==
    (pc = "idle") =>
        PlacedArea(Len(blocks)) <= nodes[root].width * nodes[root].height

\* The rectangles of two nodes share no point.
Apart(a, b) ==
    \/ a.x + a.width <= b.x \/ b.x + b.width <= a.x
    \/ a.y + a.height <= b.y \/ b.y + b.height <= a.y

\* The rectangle of node a lies in the rectangle of node b.
Within(a, b) ==
    /\ b.x <= a.x /\ a.x + a.width <= b.x + b.width
    /\ b.y <= a.y /\ a.y + a.height <= b.y + b.height

Area(a) == a.width * a.height

\* A node without used, right and down, or a used node with both children.
LeafOrSplit(i) ==
    IF nodes[i].used
    THEN nodes[i].right \in 1..Len(nodes) /\ nodes[i].down \in 1..Len(nodes)
    ELSE nodes[i].right = Null /\ nodes[i].down = Null

\* The children of used node i are disjoint, lie inside it, and with the
\* footprint left at its corner (as wide as right is shifted, as tall as
\* down is shifted) cover it exactly.
Partitioned(i) ==
    LET node  == nodes[i]
        right == nodes[node.right]
        down  == nodes[node.down]
    IN  /\ Apart(right, down)
        /\ Within(right, node) /\ Within(down, node)
        /\ Area(right) + Area(down)
             + (right.x - node.x) * (down.y - node.y) = Area(node)

Grown(i) == nodes[i].used /\ (nodes[i].right < i \/ nodes[i].down < i)

\* The fresh strip of a grown root.
Strip(i) == IF nodes[i].right < i THEN nodes[nodes[i].down] ELSE nodes[nodes[i].right]

C14_FixedUnplacedMarker ==
    [][(kind = "FixedSizePacker" /\ pc = "fit" /\ n <= hi)
       => ((blocks'[n].fit \notin {Undefined, Null})
             <=> (Packer_findNode(nodes, root, blocks[n].width, blocks[n].height)
                    # Null))]_vars

\* C15: whenever growRight or growDown returns a node, the node is the fresh
\* strip: the rectangle lands at (old root.width, 0) after growRight and at
\* (0, old root.height) after growDown, never in the old root's subtree.
\* Stated on the state right after the growth step, whose block is n - 1.
C15_GrowthLandsInStrip ==
    (last \in {"growRight", "growDown"}) =>
        LET fit == blocks[n - 1].fit
            old == IF last = "growRight" THEN nodes[root].down ELSE nodes[root].right
            new == IF last = "growRight" THEN nodes[root].right ELSE nodes[root].down
        IN  /\ Grown(root) /\ old < root /\ new > root
            /\ fit # Undefined
            /\ (fit # Null) =>
                /\ fit = new
                /\ IF last = "growRight"
                   THEN nodes[fit].x = nodes[old].width /\ nodes[fit].y = 0
                   ELSE nodes[fit].x = 0 /\ nodes[fit].y = nodes[old].height

\* growDown has just placed a rectangle below an old root that still has a
\* free node.
C15_Witness ==
    /\ last = "growDown" /\ Placed(n - 1)
    /\ \E i \in 1..(root - 1) :
        ~nodes[i].used /\ nodes[i].width > 0 /\ nodes[i].height > 0

\* The free nodes below node r, the right subtree's before the down
\* subtree's.
RECURSIVE FreeNodes(_, _)
FreeNodes(ns, r) ==
    IF ns[r].used THEN FreeNodes(ns, ns[r].right) \o FreeNodes(ns, ns[r].down)
    ELSE <<r>>

FitsIn(ns, i, width, height) == width <= ns[i].width /\ height <= ns[i].height

\* The first node of the sequence that the size fits in, or Null.
FirstFit(ns, free, width, height) ==
    LET ok == SelectSeq(free, LAMBDA i : FitsIn(ns, i, width, height))
    IN  IF ok = <<>> THEN Null ELSE Head(ok)

\* The sizes a search may be asked for, in model units.
Queries == {<<s[1] * Unit(aspectRatio), s[2] * Unit(aspectRatio)>> : s \in sizes}

\* C16: findNode is first-fit in right-before-down order: of the free nodes
\* of the tree, taken right subtree first, it returns the first one the
\* size fits in (not the tightest), and none if there is no such node.
\* Each packer's findNode, on the tree every fit call returns with (each
\* tree a loop passes through is the tree a shorter call returns with) and
\* every size.
C16_FirstFit ==
    (pc = "idle") =>
        LET free == FreeNodes(nodes, root)
        IN  \A s \in sizes :
                LET width  == s[1] * Unit(aspectRatio)
                    height == s[2] * Unit(aspectRatio)
                IN  FirstFit(nodes, free, width, height) =
                        IF kind = "GrowingPacker"
                        THEN findNode(nodes, root, width, height)
                        ELSE Packer_findNode(nodes, root, width, height)

\* A size fits a free node of the root's right subtree and a smaller free
\* node of its down subtree, and findNode returns the one on the right.
C16_Witness ==
    /\ pc = "idle" /\ nodes[root].used
    /\ \E q \in Queries :
        LET a == findNode(nodes, nodes[root].right, q[1], q[2])
            b == findNode(nodes, nodes[root].down, q[1], q[2])
        IN  /\ a # Null /\ b # Null
            /\ Area(nodes[b]) < Area(nodes[a])
            /\ findNode(nodes, root, q[1], q[2]) = a

\* The root that the last growNode call looked at: the old root kept as a
\* child of the grown root, or the root itself when the call rejected.
GrowNodeRoot ==
    IF last = "reject" THEN root
    ELSE IF nodes[root].down < root THEN nodes[root].down
    ELSE nodes[root].right

\* What the last growNode call did, read off the tree it left.
GrowNodeTook ==
    IF last = "reject" THEN "none"
    ELSE IF nodes[root].down < root THEN "growRight"
    ELSE "growDown"

\* C17: growNode's direction priority: growRight if shouldGrowRight, else
\* growDown if shouldGrowDown, else growRight if canGrowRight, else growDown
\* if canGrowDown, else none; so with both directions possible and neither
\* 'should' test true it grows right. Checked after every growNode call
\* against the root the call looked at, which the call leaves unchanged.
C17_GrowthPriority ==
    (last \in {"growRight", "growDown", "reject"}) =>
        LET old == GrowNodeRoot
            b == blocks[n - 1]
            sR == shouldGrowRight(nodes, old, aspectRatio, b.width, b.height)
            sD == shouldGrowDown(nodes, old, aspectRatio, b.width, b.height)
            cR == canGrowRight(nodes, old, b.height)
            cD == canGrowDown(nodes, old, b.width)
        IN  /\ sR => GrowNodeTook = "growRight"
            /\ (~sR /\ sD) => GrowNodeTook = "growDown"
            /\ (~sR /\ ~sD /\ cR) => GrowNodeTook = "growRight"
            /\ (~sR /\ ~sD /\ ~cR /\ cD) => GrowNodeTook = "growDown"
            /\ (~sR /\ ~sD /\ ~cR /\ ~cD) => GrowNodeTook = "none"

\* A growth to the right that was decided by canGrowRight alone, with
\* growing down possible as well.
C17_Witness ==
    /\ last = "growRight" /\ GrowNodeTook = "growRight"
    /\ LET old == GrowNodeRoot
           b == blocks[n - 1]
       IN  /\ canGrowRight(nodes, old, b.height) /\ canGrowDown(nodes, old, b.width)
           /\ ~shouldGrowRight(nodes, old, aspectRatio, b.width, b.height)
           /\ ~shouldGrowDown(nodes, old, aspectRatio, b.width, b.height)

\* Node i is the free node that this step's placement splits: it becomes
\* used and gets two fresh children, and keeps its position and size.
SplitBy(i) ==
    /\ pc = "fit" /\ n <= hi /\ blocks'[n].fit = i
    /\ ~nodes[i].used /\ nodes'[i].used
    /\ nodes'[i].x = nodes[i].x /\ nodes'[i].y = nodes[i].y
    /\ nodes'[i].width = nodes[i].width /\ nodes'[i].height = nodes[i].height
    /\ nodes'[i].right > Len(nodes) /\ nodes'[i].down > Len(nodes)

\* C18: placements are stable across growth: a step keeps every node of
\* the tree as it was, children included, except the one free node that the
\* step's own placement splits; a growth step keeps the old root unchanged
\* under the new root; and the node and position recorded for every other
\* block stay as they were.
C18_Stable ==
    [][ /\ Len(nodes') >= Len(nodes)
        /\ \A i \in 1..Len(nodes) : nodes'[i] = nodes[i] \/ SplitBy(i)
        /\ (last' \in {"growRight", "growDown"} /\ root' # root) =>
              /\ nodes'[root] = nodes[root]
              /\ root \in {nodes'[root'].right, nodes'[root'].down}
        /\ \A j \in 1..Len(blocks) :
              (Placed(j) /\ ~(pc = "fit" /\ j = n)) =>
                  /\ blocks'[j].fit = blocks[j].fit
                  /\ nodes'[blocks'[j].fit].x = nodes[blocks[j].fit].x
                  /\ nodes'[blocks'[j].fit].y = nodes[blocks[j].fit].y
      ]_vars

\* After a growth, a later placement has split a free node of the old tree
\* while another block placed before the growth is still recorded there.
C18_Witness ==
    /\ kind = "GrowingPacker" /\ last = "split" /\ Grown(root)
    /\ blocks[n - 1].fit < root
    /\ \E j \in 1..Len(blocks) :
          j # n - 1 /\ Placed(j) /\ blocks[j].fit < root

=============================================================================
